---- MODULE Spec2Model ----
(***************************************************************************)
(* Model of opendeep.models.container.Prototype: a container holding an    *)
(* ordered list of models and presenting their aggregate as one model.     *)
(*                                                                         *)
(* Python values are tagged records so that values of different Python     *)
(* types are never equal:  None, a list, a dict, an opaque object.         *)
(* A call either returns a value or raises an exception.                   *)
(***************************************************************************)
EXTENDS Integers, Sequences, FiniteSets, TLC

\* ------------------------------------------------------------------ bounds

\* most models a container is given
MaxUnits == 3

\* ------------------------------------------------------- Python values

PyNone == [none |-> TRUE]
PyList(s) == [list |-> s]
PyDict(m) == [dict |-> m]
PyObj(x) == [obj |-> x]

IsNone(v) == "none" \in DOMAIN v
IsList(v) == "list" \in DOMAIN v
IsDict(v) == "dict" \in DOMAIN v

\* Python truth value of None, a list or a dict
Truthy(v) ==
    IF IsNone(v) THEN FALSE
    ELSE IF IsList(v) THEN Len(v.list) > 0
    ELSE IF IsDict(v) THEN DOMAIN v.dict # {}
    ELSE TRUE

Return(v) == [ret |-> v]
Raise(e) == [exc |-> e]
Raised(o) == "exc" \in DOMAIN o

EmptyDict == [k \in {} |-> "none"]

\* mutant of DictUpdate: an entry d already has is kept
DictUpdateKeepsOld(d, other) ==
    [k \in (DOMAIN d) \cup (DOMAIN other) |->
        IF k \in DOMAIN d THEN d[k] ELSE other[k]]

\* dict.update(other): the entries of other are written over those of d
DictUpdate(d, other) ==
    [k \in (DOMAIN d) \cup (DOMAIN other) |->
        IF k \in DOMAIN other THEN other[k] ELSE d[k]]

Range(s) == {s[i] : i \in 1..Len(s)}

\* ------------------------------------------------- symbolic variables

\* A symbolic variable a model lists among its inputs.  isTensor: it is a
\* theano TensorVariable; owner: PyNone for a leaf, else the op that
\* produces it; iter: what iterating the variable gives (list.extend
\* iterates its argument): the list of its element variables, or PyNone
\* when iteration raises TypeError (anything but a fixed-length vector).
TVar(name, isTensor, owner, iter) ==
    [name |-> name, isTensor |-> isTensor, owner |-> owner, iter |-> iter]

VarX == TVar("x", TRUE, PyNone, PyNone)
VarB == TVar("b", TRUE, PyNone, PyList(<<"b[0]">>))
VarH == TVar("h", TRUE, PyObj("apply"), PyNone)
VarS == TVar("s", FALSE, PyNone, PyNone)

\* ---------------------------------------------------------------- models

Unit(inputs, outputs, cost, params, updates, decay, lr) ==
    [inputs |-> inputs, outputs |-> outputs, cost |-> cost, params |-> params,
     updates |-> updates, decay |-> decay, lr |-> lr]

Upd(k, v) == PyDict([x \in {k} |-> v])

NoList == PyList(<<>>)
NoDict == PyDict(EmptyDict)

\* models that differ in their inputs, outputs, cost and updates
UnitsIO ==
    { Unit(<<VarX>>, PyObj("o1"), PyObj("c1"), NoList, PyNone, NoList, NoDict),
      Unit(<<VarH>>, PyObj("o2"), PyObj("c2"), NoList, PyNone, NoList, NoDict),
      Unit(<<VarB>>, PyObj("o1"), PyObj("c1"), NoList, Upd("a", "x"), NoList, NoDict),
      Unit(<<VarS, VarH>>, PyObj("o2"), PyObj("c2"), NoList, Upd("b", "y"), NoList, NoDict) }

\* models that differ in their updates
UnitsUpd ==
    { Unit(<<>>, PyObj("o1"), PyObj("c1"), NoList, u, NoList, NoDict) :
        u \in { PyNone, NoDict, Upd("a", "x"), Upd("a", "y"), Upd("b", "y"),
                PyDict([k \in {"a", "b"} |-> "z"]) } }

\* models that differ in their params, decay params, lr scalers and updates
UnitsAgg ==
    { Unit(<<>>, PyObj("o1"), PyObj("c1"), p, PyNone, NoList, NoDict) :
        p \in { PyNone, NoList, PyList(<<"p1", "p2">>), PyList(<<"p2", "p3">>),
                PyList(<<"p3", "p1", "p3">>) } }
    \cup
    { Unit(<<>>, PyObj("o1"), PyObj("c1"), PyList(<<"p1">>), PyNone, PyNone, Upd("p1", "1")),
      Unit(<<>>, PyObj("o1"), PyObj("c1"), PyList(<<"p1">>), NoDict, PyList(<<"d1">>), PyNone),
      Unit(<<>>, PyObj("o1"), PyObj("c1"), PyList(<<"p2">>), Upd("a", "x"),
           PyList(<<"d2", "d1">>), Upd("p1", "2")),
      Unit(<<>>, PyObj("o1"), PyObj("c1"), NoList, Upd("a", "y"), NoList, Upd("p2", "2")) }

\* ----------------------------------------------------------------- state

VARIABLES
    models,     \* self.models: the list of the models held, as object ids
    heap,       \* the model objects: heap[id] is the model with that id
    f_predict,  \* self.f_predict: Unset until predict() has compiled it
    added,      \* history: the ids given to add(), in call order
    predicted,  \* history: predict() has been called
    last        \* the last call: its name, argument, outcome and compilation

vars == <<models, heap, f_predict, added, predicted, last>>

Unset == [unset |-> TRUE]
Compiled(inputs, outputs, updates) ==
    [fn |-> [inputs |-> inputs, outputs |-> outputs, updates |-> updates]]

Call(op, arg, out, compile, attempts) ==
    [op |-> op, arg |-> arg, out |-> out, compile |-> compile, attempts |-> attempts]

Init ==
    /\ models = <<>>
    /\ heap = <<>>
    /\ f_predict = Unset
    /\ added = <<>>
    /\ predicted = FALSE
    /\ last = Call("init", 0, Return(PyNone), "none", 0)

\* ------------------------------------------------------------ operations

\* mutant of GetItemOf: an index past the end gives the last model
GetItemClamped(ms, item) ==
    LET n == Len(ms) IN
    IF item >= 0 /\ item < n THEN Return(PyObj(ms[item + 1]))
    ELSE IF item < 0 /\ item >= -n THEN Return(PyObj(ms[n + item + 1]))
    ELSE IF n > 0 /\ item >= n THEN Return(PyObj(ms[n]))
    ELSE Raise("IndexError")

\* __getitem__: self.models[item], Python list indexing of an integer:
\* -len..-1 count from the end, anything outside -len..len-1 raises
GetItemOf(ms, item) ==
    LET n == Len(ms) IN
    IF item >= 0 /\ item < n THEN Return(PyObj(ms[item + 1]))
    ELSE IF item < 0 /\ item >= -n THEN Return(PyObj(ms[n + item + 1]))
    ELSE Raise("IndexError")

\* __iter__: yields the models in list order
IterOf(ms) == Return(PyList(ms))

\* mutant of AppendModel: the model is put in front
PrependModel(ms, id) == <<id>> \o ms

\* add: self.models.append(model)
AppendModel(ms, id) == Append(ms, id)

\* inputs.extend(input): list.extend iterates input and appends what it yields
ExtendWith(inputs, input) ==
    IF IsNone(input.iter) THEN Raise("TypeError")
    ELSE Return(inputs \o input.iter.list)

\* get_inputs, the inner loop over one model's inputs
RECURSIVE InputsOfModel(_, _)
InputsOfModel(model_inputs, inputs) ==
    IF model_inputs = <<>> THEN Return(inputs)
    ELSE LET input == Head(model_inputs) IN
         IF input.isTensor /\ IsNone(input.owner)
         THEN LET r == ExtendWith(inputs, input) IN
              IF Raised(r) THEN r ELSE InputsOfModel(Tail(model_inputs), r.ret)
         ELSE InputsOfModel(Tail(model_inputs), inputs)

\* get_inputs, the outer loop over the models
RECURSIVE InputsLoop(_, _, _)
InputsLoop(ms, hp, inputs) ==
    IF ms = <<>> THEN Return(PyList(inputs))
    ELSE LET r == InputsOfModel(hp[Head(ms)].inputs, inputs) IN
         IF Raised(r) THEN r ELSE InputsLoop(Tail(ms), hp, r.ret)

get_inputs(ms, hp) == InputsLoop(ms, hp, <<>>)

\* mutant of get_outputs: the outputs of the first model
get_outputs_first(ms, hp) ==
    IF Len(ms) > 0 THEN Return(hp[ms[1]].outputs) ELSE Return(PyNone)

\* get_outputs: the outputs of the last model, None on an empty container
get_outputs(ms, hp) ==
    IF Len(ms) > 0 THEN Return(hp[ms[Len(ms)]].outputs) ELSE Return(PyNone)

\* get_train_cost: the train cost of the last model, None on an empty container
get_train_cost(ms, hp) ==
    IF Len(ms) > 0 THEN Return(hp[ms[Len(ms)]].cost) ELSE Return(PyNone)

\* updates.update(current_updates) on the dict object that model `ref` holds
UpdateInPlace(hp, ref, current_updates) ==
    [hp EXCEPT ![ref].updates = PyDict(DictUpdate(hp[ref].updates.dict, current_updates.dict))]

\* get_updates, the loop.  `updates` is None or names the model whose dict
\* object the local variable is bound to (updates = current_updates binds
\* the object the model returned, not a copy).  Gives the heap after the
\* loop and the object bound at its end.
RECURSIVE UpdatesLoop(_, _, _)
UpdatesLoop(ms, hp, updates) ==
    IF ms = <<>> THEN [heap |-> hp, updates |-> updates]
    ELSE LET current_updates == hp[Head(ms)].updates
             bound == IF IsNone(updates) THEN PyNone ELSE hp[updates.obj].updates
         IN  IF Truthy(bound) /\ Truthy(current_updates)
             THEN UpdatesLoop(Tail(ms), UpdateInPlace(hp, updates.obj, current_updates), updates)
             ELSE IF Truthy(current_updates)
             THEN UpdatesLoop(Tail(ms), hp, PyObj(Head(ms)))
             ELSE UpdatesLoop(Tail(ms), hp, updates)

\* get_updates: the value returned and the heap it leaves
get_updates(ms, hp) ==
    LET r == UpdatesLoop(ms, hp, PyNone) IN
    [heap |-> r.heap,
     out |-> Return(IF IsNone(r.updates) THEN PyNone ELSE r.heap[r.updates.obj].updates)]

\* mutant of DecayLoop: a model that returns None is skipped
RECURSIVE DecayLoopSkipsNone(_, _, _)
DecayLoopSkipsNone(ms, hp, decay_params) ==
    IF ms = <<>> THEN Return(PyList(decay_params))
    ELSE LET d == hp[Head(ms)].decay IN
         IF IsNone(d) THEN DecayLoopSkipsNone(Tail(ms), hp, decay_params)
         ELSE DecayLoopSkipsNone(Tail(ms), hp, decay_params \o d.list)

\* get_decay_params: decay_params.extend(model.get_decay_params()) per model
RECURSIVE DecayLoop(_, _, _)
DecayLoop(ms, hp, decay_params) ==
    IF ms = <<>> THEN Return(PyList(decay_params))
    ELSE LET d == hp[Head(ms)].decay IN
         IF IsNone(d) THEN Raise("TypeError")
         ELSE DecayLoop(Tail(ms), hp, decay_params \o d.list)

get_decay_params(ms, hp) == DecayLoop(ms, hp, <<>>)

\* get_lr_scalers: lr_scalers.update(model.get_lr_scalers()) per model
RECURSIVE LrLoop(_, _, _)
LrLoop(ms, hp, lr_scalers) ==
    IF ms = <<>> THEN Return(PyDict(lr_scalers))
    ELSE LET l == hp[Head(ms)].lr IN
         IF IsNone(l) THEN Raise("TypeError")
         ELSE LrLoop(Tail(ms), hp, DictUpdate(lr_scalers, l.dict))

get_lr_scalers(ms, hp) == LrLoop(ms, hp, EmptyDict)

\* mutant of ParamsOfModel: every param is appended
ParamsOfModelAll(model_params, params) == params \o model_params

\* get_params, the inner loop: append a param unless it is in the list
RECURSIVE ParamsOfModel(_, _)
ParamsOfModel(model_params, params) ==
    IF model_params = <<>> THEN params
    ELSE LET param == Head(model_params) IN
         IF param \notin Range(params)
         THEN ParamsOfModel(Tail(model_params), Append(params, param))
         ELSE ParamsOfModel(Tail(model_params), params)

\* get_params, the outer loop over the models
RECURSIVE ParamsLoop(_, _, _)
ParamsLoop(ms, hp, params) ==
    IF ms = <<>> THEN Return(PyList(params))
    ELSE LET p == hp[Head(ms)].params IN
         IF IsNone(p) THEN Raise("TypeError")
         ELSE ParamsLoop(Tail(ms), hp, ParamsOfModel(p.list, params))

get_params(ms, hp) == ParamsLoop(ms, hp, <<>>)

\* ---------------------------------------------------------------- actions

\* queries leave the container and the models alone
Query(op, arg, out) ==
    /\ last' = Call(op, arg, out, "none", 0)
    /\ UNCHANGED <<models, heap, f_predict, added, predicted>>

\* add(model): a model object not yet held is appended
Add(u) ==
    /\ Len(heap) < MaxUnits
    /\ LET id == Len(heap) + 1 IN
       /\ heap' = Append(heap, u)
       /\ models' = AppendModel(models, id)
       /\ added' = Append(added, id)
       /\ last' = Call("add", id, Return(PyNone), "none", 0)
    /\ UNCHANGED <<f_predict, predicted>>

GetItem ==
    \E item \in -(MaxUnits + 1) .. (MaxUnits + 1) :
        Query("get", item, GetItemOf(models, item))

Iterate == Query("iter", 0, IterOf(models))

GetInputs == Query("get_inputs", 0, get_inputs(models, heap))

GetOutputs == Query("get_outputs", 0, get_outputs(models, heap))

GetTrainCost == Query("get_train_cost", 0, get_train_cost(models, heap))

GetDecayParams == Query("get_decay_params", 0, get_decay_params(models, heap))

GetLrScalers == Query("get_lr_scalers", 0, get_lr_scalers(models, heap))

GetParams == Query("get_params", 0, get_params(models, heap))

GetUpdates ==
    LET r == get_updates(models, heap) IN
    /\ heap' = r.heap
    /\ last' = Call("get_updates", 0, r.out, "none", 0)
    /\ UNCHANGED <<models, f_predict, added, predicted>>

\* self.f_predict(input): the engine runs the compiled function; it returns
\* the output value or raises (the inputs given do not fit the function)
RunOf(f, input, runs) ==
    IF runs THEN Return(PyObj([f |-> f, input |-> input])) ELSE Raise("RunError")

\* mutant of HasPredictor: the memoized predictor is never found
NeverHasPredictor(f) == FALSE

\* hasattr(self, 'f_predict')
HasPredictor(f) == f # Unset

\* mutant of AfterCompile: the attribute is set whether or not function() raised
AfterCompileAlwaysSet(old, f, compiles) == f

\* self.f_predict = function(...): the attribute is assigned when function()
\* returns, and keeps its state when function() raises
AfterCompile(old, f, compiles) == IF compiles THEN f ELSE old

\* predict(input).  compiles: the engine's function() builds the predictor;
\* runs: the compiled function accepts the input
Predict ==
    \E input \in {"v1", "v2"}, compiles \in BOOLEAN, runs \in BOOLEAN :
        /\ predicted' = TRUE
        /\ UNCHANGED <<models, added>>
        /\ IF HasPredictor(f_predict)
           THEN /\ last' = Call("predict", input, RunOf(f_predict, input, runs), "none", 0)
                /\ UNCHANGED <<heap, f_predict>>
           ELSE LET inputs == get_inputs(models, heap)
                    outputs == get_outputs(models, heap)
                    updates == get_updates(models, heap)
                    f == Compiled(inputs.ret, outputs.ret, updates.out.ret)
                IN  IF Raised(inputs)
                    THEN /\ last' = Call("predict", input, inputs, "none", 0)
                         /\ UNCHANGED <<heap, f_predict>>
                    ELSE /\ heap' = updates.heap
                         /\ f_predict' = AfterCompile(f_predict, f, compiles)
                         /\ last' = IF compiles
                                    THEN Call("predict", input, RunOf(f, input, runs), "ok", 1)
                                    ELSE Call("predict", input, Raise("CompileError"), "failed", 1)

AddIO == \E u \in UnitsIO : Add(u)
AddUpd == \E u \in UnitsUpd : Add(u)
AddAgg == \E u \in UnitsAgg : Add(u)

\* every operation, on models that differ in inputs, outputs, cost, updates
Next ==
    \/ AddIO
    \/ GetItem
    \/ Iterate
    \/ GetInputs
    \/ GetOutputs
    \/ GetTrainCost
    \/ GetUpdates
    \/ GetDecayParams
    \/ GetLrScalers
    \/ GetParams
    \/ Predict

\* get_updates and predict, on models that differ in their updates
NextUpd == AddUpd \/ GetUpdates \/ Predict

\* the aggregation queries, on models that differ in what they aggregate
NextAgg == AddAgg \/ GetUpdates \/ GetDecayParams \/ GetLrScalers \/ GetParams

Spec == Init /\ [][Next]_vars
SpecUpd == Init /\ [][NextUpd]_vars
SpecAgg == Init /\ [][NextAgg]_vars

\* ----------------------------------------------------------------- claims

IsPrefix(s, t) == Len(s) <= Len(t) /\ \A i \in 1..Len(s) : s[i] = t[i]

Positions(ms) == 1..Len(ms)

\* C1 as stated: once predict() has been called, every later predict() call
\* reuses the predictor of the first call and compiles nothing.
C1_CompiledOnFirstCallOnly ==
    [][(predicted /\ last'.op = "predict")
         => (last'.compile = "none" /\ f_predict' = f_predict)]_vars

\* C1 as amended: a predictor is memoized at most once.  The predict() call
\* whose compilation succeeds memoizes the predictor built from get_inputs,
\* get_outputs and get_updates of the pipeline as it is then; from then on
\* the memoized predictor never changes, and every predict() call runs it
\* and compiles nothing, also when add was called in between.
C1_MemoizedOnce ==
    [][/\ f_predict # Unset =>
            /\ f_predict' = f_predict
            /\ last'.op = "predict" =>
                  /\ last'.compile = "none"
                  /\ last'.attempts = 0
                  /\ ~Raised(last'.out) => last'.out.ret.obj.f = f_predict
       /\ (f_predict = Unset /\ f_predict' # Unset) =>
            /\ last'.op = "predict"
            /\ last'.compile = "ok"
            /\ ~Raised(get_inputs(models, heap))
            /\ f_predict' = Compiled(get_inputs(models, heap).ret,
                                     get_outputs(models, heap).ret,
                                     get_updates(models, heap).out.ret)
      ]_vars

\* a predict() call has run a predictor that was compiled before the last
\* model was added: its outputs are not those of the pipeline as it is now
C1_Witness ==
    /\ f_predict # Unset
    /\ last.op = "predict"
    /\ last.compile = "none"
    /\ ~Raised(last.out)
    /\ f_predict.fn.outputs # get_outputs(models, heap).ret

\* C2: the pipeline is append-only and order-stable: the models are the
\* added ones in the order of the add calls, get(i) gives the i-th added
\* model, iteration gives them in that order, and no operation but add
\* changes the list, which add only extends at its end.
C2_AppendOnly ==
    /\ [](/\ models = added
          /\ last.op = "iter" => last.out = Return(PyList(added))
          /\ (last.op = "get" /\ last.arg \in 0 .. Len(added) - 1)
                => last.out = Return(PyObj(added[last.arg + 1])))
    /\ [][/\ IsPrefix(models, models')
          /\ last'.op # "add" => models' = models
          /\ last'.op = "add" => models' = Append(models, last'.arg)]_vars

\* get(1) gives the second of several models after a predictor was compiled
C2_Witness ==
    /\ Len(models) >= 2
    /\ f_predict # Unset
    /\ last.op = "get"
    /\ last.arg = 1
    /\ last.out = Return(PyObj(added[2]))

\* the names of the leaf inputs of the models, in pipeline order: the
\* TensorVariable inputs that no op produces
RECURSIVE LeafNames(_)
LeafNames(vs) ==
    IF vs = <<>> THEN <<>>
    ELSE (IF Head(vs).isTensor /\ IsNone(Head(vs).owner) THEN <<Head(vs).name>> ELSE <<>>)
         \o LeafNames(Tail(vs))

RECURSIVE AllInputs(_, _)
AllInputs(ms, hp) ==
    IF ms = <<>> THEN <<>> ELSE hp[Head(ms)].inputs \o AllInputs(Tail(ms), hp)

\* C3: get_inputs() returns exactly the leaf inputs of the models, in
\* pipeline order.
C3_LeafInputs ==
    last.op = "get_inputs"
        => last.out = Return(PyList(LeafNames(AllInputs(models, heap))))

\* the models that define updates: a non-empty mapping
Defining(ms, hp) == {i \in Positions(ms) : Truthy(hp[ms[i]].updates)}

LastOf(S) == CHOOSE i \in S : \A j \in S : j <= i

\* the merge of the models' update mappings, the later model winning a key;
\* None when no model defines updates
ExpectedUpdates(ms, hp) ==
    LET defs == Defining(ms, hp)
        keys == UNION {DOMAIN hp[ms[i]].updates.dict : i \in defs}
        at(k) == LastOf({i \in defs : k \in DOMAIN hp[ms[i]].updates.dict})
    IN  IF defs = {} THEN PyNone
        ELSE PyDict([k \in keys |-> hp[ms[at(k)]].updates.dict[k]])

\* C4: get_updates() returns None when no model defines updates (none, or
\* only absent and empty mappings), also on an empty pipeline; otherwise the
\* merge of the models' mappings in pipeline order, the later model winning
\* a key and models without updates contributing nothing.
C4_MergedUpdates ==
    [][last'.op = "get_updates"
         => last'.out = Return(ExpectedUpdates(models, heap))]_vars

\* get_updates() was called on a pipeline where two models define the same
\* key and a model without updates stands before them
C4_Witness ==
    /\ last.op = "get_updates"
    /\ Len(models) = 3
    /\ ~Truthy(heap[models[1]].updates)
    /\ last.out = Return(Upd("a", "y"))

RECURSIVE AllParams(_, _)
AllParams(ms, hp) ==
    IF ms = <<>> THEN <<>> ELSE hp[Head(ms)].params.list \o AllParams(Tail(ms), hp)

FirstPos(s, x) == CHOOSE i \in 1..Len(s) : s[i] = x /\ \A j \in 1..(i - 1) : s[j] # x

\* C5: when every model exposes a parameter list, get_params() returns each
\* parameter some model exposes exactly once, in the order of first
\* occurrence when walking the models in pipeline order.
C5_ParamsOnce ==
    (last.op = "get_params" /\ \A i \in Positions(models) : IsList(heap[models[i]].params))
        => /\ ~Raised(last.out)
           /\ LET r == last.out.ret.list
                  all == AllParams(models, heap)
              IN  /\ \A i, j \in 1..Len(r) : i # j => r[i] # r[j]
                  /\ Range(r) = Range(all)
                  /\ \A i, j \in 1..Len(r) : i < j => FirstPos(all, r[i]) < FirstPos(all, r[j])

\* get_params() was called on models that share parameters
C5_Witness ==
    /\ last.op = "get_params"
    /\ ~Raised(last.out)
    /\ \A i \in Positions(models) : IsList(heap[models[i]].params)
    /\ Len(last.out.ret.list) = 3
    /\ Len(AllParams(models, heap)) > 3

\* C6: get_outputs() and get_train_cost() return None on an empty container
\* and do not raise; on a non-empty one they return the outputs, resp. the
\* train cost, of the model added last.
C6_LastModel ==
    /\ last.op = "get_outputs" =>
          last.out = IF added = <<>> THEN Return(PyNone)
                     ELSE Return(heap[added[Len(added)]].outputs)
    /\ last.op = "get_train_cost" =>
          last.out = IF added = <<>> THEN Return(PyNone)
                     ELSE Return(heap[added[Len(added)]].cost)

\* get_outputs() was called on a pipeline whose first and last model differ
\* in their outputs
C6_Witness ==
    /\ last.op = "get_outputs"
    /\ Len(models) >= 2
    /\ heap[models[1]].outputs # heap[models[Len(models)]].outputs
    /\ last.out = Return(heap[models[Len(models)]].outputs)

Aggregations == {"get_updates", "get_lr_scalers", "get_params", "get_decay_params"}

\* what a model returns for the capability an aggregation query collects
Capability(op, u) ==
    CASE op = "get_updates" -> u.updates
      [] op = "get_lr_scalers" -> u.lr
      [] op = "get_params" -> u.params
      [] op = "get_decay_params" -> u.decay

Aggregate(op, ms, hp) ==
    CASE op = "get_updates" -> get_updates(ms, hp).out
      [] op = "get_lr_scalers" -> get_lr_scalers(ms, hp)
      [] op = "get_params" -> get_params(ms, hp)
      [] op = "get_decay_params" -> get_decay_params(ms, hp)

\* the models that return something for the capability: not None, not empty
RECURSIVE Remaining(_, _, _)
Remaining(op, ms, hp) ==
    IF ms = <<>> THEN <<>>
    ELSE (IF Truthy(Capability(op, hp[Head(ms)])) THEN <<Head(ms)>> ELSE <<>>)
         \o Remaining(op, Tail(ms), hp)

\* C7 as stated: the four aggregation queries never raise.
C7_NeverRaises ==
    last.op \in Aggregations => ~Raised(last.out)

\* C7 as amended: get_updates never raises; get_lr_scalers, get_params and
\* get_decay_params raise TypeError exactly when some model returns None for
\* that capability.  A query that does not raise returns the aggregate of
\* the models that return a non-empty value: a model that returns an empty
\* value (for get_updates: also None) contributes nothing.
C7_RaisesOnNoneOnly ==
    last.op \in Aggregations =>
        IF last.op # "get_updates"
           /\ \E i \in Positions(models) : IsNone(Capability(last.op, heap[models[i]]))
        THEN last.out = Raise("TypeError")
        ELSE /\ ~Raised(last.out)
             /\ last.out = Aggregate(last.op, Remaining(last.op, models, heap), heap)

\* get_decay_params() returned the aggregate of a pipeline in which a model
\* returns an empty list and another a non-empty one
C7_Witness ==
    /\ last.op = "get_decay_params"
    /\ ~Raised(last.out)
    /\ Len(last.out.ret.list) > 0
    /\ \E i \in Positions(models) : heap[models[i]].decay = NoList

\* C8: a predict() call makes at most one compilation attempt; when the
\* engine fails to compile, the call raises that failure, no predictor is
\* memoized and the list of models is unchanged.
C8_CompileFailure ==
    [][last'.op = "predict" =>
          /\ last'.attempts <= 1
          /\ last'.compile = "failed" =>
                /\ last'.out = Raise("CompileError")
                /\ last'.attempts = 1
                /\ f_predict = Unset
                /\ f_predict' = Unset
                /\ models' = models]_vars

\* predict() on a non-empty pipeline failed in compilation
C8_Witness ==
    /\ last.op = "predict"
    /\ last.compile = "failed"
    /\ Len(models) > 0
    /\ f_predict = Unset

\* C9: get(index) returns the model at index when index is a position of
\* the list (0..len-1, and -len..-1 counting from the end), and raises
\* IndexError for every other index: every index on an empty pipeline and
\* every index >= len; a get changes nothing.
C9_GetItem ==
    [][last'.op = "get" =>
          LET i == last'.arg
              n == Len(added)
          IN  /\ UNCHANGED <<models, heap, f_predict>>
              /\ i \in 0 .. n - 1 => last'.out = Return(PyObj(added[i + 1]))
              /\ i \in -n .. -1 => last'.out = Return(PyObj(added[n + i + 1]))
              /\ (n = 0 \/ i >= n \/ i < -n) => last'.out = Raise("IndexError")]_vars

\* get(len) on a non-empty pipeline raised
C9_Witness ==
    /\ last.op = "get"
    /\ Len(models) > 0
    /\ last.arg = Len(models)
    /\ last.out = Raise("IndexError")

\* C10: get_updates(), and a predict() call, leave every model's update
\* mapping as it was.
C10_UpdatesUntouched ==
    [][last'.op \in {"get_updates", "predict"} => heap' = heap]_vars

====
